---- MODULE Spec2Model ----
(***************************************************************************)
(* Model of payload_dumper/dumper.py: the Dumper object (construction,     *)
(* partition selection, payload prefetch, the thread pool that runs one    *)
(* dump_part per selected partition, the as_completed collection loop)     *)
(* and the operation executor data_for_op.                                 *)
(*                                                                         *)
(* Partition names are the naturals 1..NParts in manifest order; NoSuch is *)
(* a name no manifest partition carries.  The allow-list `images` is kept  *)
(* as the list of names obtained by splitting the string at "," and        *)
(* stripping; the empty list stands for the empty string.                  *)
(***************************************************************************)
EXTENDS Integers, Sequences, FiniteSets, TLC

NParts == 2
MaxOps == 2
MaxImages == 2
MaxWorkers == 2
MaxStart == 2
MaxNum == 2
MaxExts == 2
MaxBlockSize == 2
MaxBody == 4

NoSuch == 0
HeadLen == 24
FormatVersion == 2

VARIABLES
    nops,        \* manifest: number of operations of each partition
    images,      \* self.images, split at ","
    diff,        \* self.diff
    workers,     \* self.workers
    phase,       \* position of the main thread
    exitStatus,  \* process exit status, meaningful once phase = "exited"
    pending,     \* exception travelling up the main thread ("none" if none)
    dataOffset,  \* self.data_offset
    payload,     \* self.payloadfile: open flag, read cursor, log of reads
    partitions,  \* run(): the local list `partitions`
    warnings,    \* run(): names printed as "not found"
    fetchPart,   \* run(): index into `partitions` of the prefetch loop
    curOps,      \* run(): the local list `operations` being filled
    tasks,       \* run(): partitions_with_ops
    queue,       \* executor work queue (task indices, FIFO)
    pc,          \* per task: position of its dump_part
    opIdx,       \* per task: index into part["operations"]
    err,         \* per task: what ended it ("none" while it has not failed)
    applied,     \* per task: operations whose data_for_op returned
    called,      \* per task: operations followed by update_callback
    collected,   \* tasks yielded by as_completed and handled
    reported,    \* tasks for which the "generated an exception" line printed
    outFiles,    \* per partition name: the file <out>/<name>.img, its
                 \* contents kept as the set of (task, operation) writes
    bars,        \* progress_bars: per partition name, the current counter
    blockSize,   \* self.block_size
    execOp,      \* data_for_op: the operation and its payload bytes
    oldFile,     \* data_for_op: old_file (read cursor and bytes)
    outFile,     \* data_for_op: out_file (write cursor and bytes)
    execPc,      \* data_for_op: "idle", "ready", "done" or the error raised
    pfile,       \* parse_metadata: self.payloadfile as cursor and bytes
    parsePc,     \* parse_metadata: "idle", "ready", "done" or "assert"
    attrs,       \* parse_metadata: the attributes it has assigned on self
    extsArg,     \* verify_contiguous: its argument
    contiguous   \* verify_contiguous: <<>> before the call, then <<result>>

inputs == <<nops, images, diff, workers>>
mainv  == <<phase, exitStatus, pending, dataOffset, payload, partitions,
            warnings, fetchPart, curOps, tasks>>
poolv  == <<queue, pc, opIdx, err, applied, called>>
loopv  == <<collected, reported>>
execv  == <<blockSize, execOp, oldFile, outFile, execPc>>
parsev == <<pfile, parsePc, attrs>>
checkv == <<extsArg, contiguous>>
vars   == <<inputs, mainv, poolv, loopv, outFiles, bars, execv, parsev, checkv>>

----------------------------------------------------------------------------
(* Inputs *)

Names == 1..NParts

ImageLists == UNION {[1..n -> Names \cup {NoSuch}] : n \in 0..MaxImages}

Magics == {"CrAU", "PK"}

Headers ==
    [len : {HeadLen - 1, HeadLen}, magic : Magics,
     version : (FormatVersion - 1)..(FormatVersion + 1),
     manifest_size : {2}, sig_size : {0}]

OpTypes == {"REPLACE", "REPLACE_XZ", "REPLACE_BZ", "SOURCE_COPY",
            "SOURCE_BSDIFF", "ZERO", "OTHER"}

(* sys.exit(n) ends the process with status n mod 256; an exception that   *)
(* reaches the top of the interpreter ends it with status 1.               *)
ExitArg(e) ==
    CASE e = "unsupported" -> 0 - 1
      [] e = "mode_copy"   -> 0 - 2
      [] e = "mode_bsdiff" -> 0 - 3

(* variant: one status for every kind of error *)
ExitCode_flat(e) == 1

ExitCode(e) ==
    IF e \in {"unsupported", "mode_copy", "mode_bsdiff"}
    THEN ExitArg(e) % 256
    ELSE 1

Fatal == {"unsupported", "mode_copy", "mode_bsdiff"}

----------------------------------------------------------------------------
(* parse_metadata: the three assertions on the header *)

HeaderOk(h) ==
    /\ h.len = HeadLen
    /\ h.magic = "CrAU"
    /\ h.version = FormatVersion

DataOffsetOf(h) == HeadLen + h.manifest_size + h.sig_size

(* Layout of the data region: operations lie one after the other in       *)
(* manifest order, each with one unit of payload.                         *)
OpDataLength == 1

RECURSIVE OpsBefore(_)
OpsBefore(p) == IF p = 1 THEN 0 ELSE OpsBefore(p - 1) + nops[p - 1]

OpDataOffset(p, i) == (OpsBefore(p) + (i - 1)) * OpDataLength

----------------------------------------------------------------------------
(* run(): partition selection *)

(* variant: every manifest partition matches every allow-list entry *)
Matching_any(image) == Names

Matching(image) == {p \in Names : p = image}

FirstMatch(image) == CHOOSE p \in Matching(image) : \A q \in Matching(image) : p <= q

RECURSIVE SelectFrom(_)
SelectFrom(imgs) ==
    IF imgs = <<>> THEN <<>>
    ELSE (IF Matching(Head(imgs)) # {} THEN <<FirstMatch(Head(imgs))>> ELSE <<>>)
         \o SelectFrom(Tail(imgs))

RECURSIVE NotFound(_)
NotFound(imgs) ==
    IF imgs = <<>> THEN <<>>
    ELSE (IF Matching(Head(imgs)) = {} THEN <<Head(imgs)>> ELSE <<>>)
         \o NotFound(Tail(imgs))

SelectPartitions ==
    IF images = <<>> THEN [p \in Names |-> p] ELSE SelectFrom(images)

----------------------------------------------------------------------------
Init ==
    /\ nops \in [Names -> 1..MaxOps]
    /\ images \in ImageLists
    /\ diff \in BOOLEAN
    /\ workers \in 1..MaxWorkers
    /\ phase = "init"
    /\ exitStatus = 0
    /\ pending = "none"
    /\ dataOffset = 0
    /\ payload = [open |-> TRUE, pos |-> 0, reads |-> <<>>]
    /\ partitions = <<>>
    /\ warnings = <<>>
    /\ fetchPart = 1
    /\ curOps = <<>>
    /\ tasks = <<>>
    /\ queue = <<>>
    /\ pc = <<>>
    /\ opIdx = <<>>
    /\ err = <<>>
    /\ applied = <<>>
    /\ called = <<>>
    /\ collected = {}
    /\ reported = {}
    /\ outFiles = [n \in Names |-> [exists |-> FALSE, openers |-> {}, data |-> {}]]
    /\ bars = [n \in Names |-> [made |-> 0, total |-> 0, count |-> 0, closed |-> FALSE]]
    /\ blockSize = 1
    /\ execOp = [type |-> "ZERO", src_extents |-> <<>>, dst_extents |-> <<>>,
                 data |-> <<>>]
    /\ oldFile = [pos |-> 0, bytes |-> <<>>]
    /\ outFile = [pos |-> 0, bytes |-> <<>>]
    /\ execPc = "idle"
    /\ pfile = [pos |-> 0, bytes |-> <<>>]
    /\ parsePc = "idle"
    /\ attrs = [x \in {} |-> 0]
    /\ extsArg = <<>>
    /\ contiguous = <<>>

(* Dumper.__init__: parse_metadata, and on AssertionError the zip fallback *)
(* followed by a second parse_metadata on the archive's payload.bin.       *)
Construct ==
    /\ phase = "init"
    /\ \E h \in Headers, isZip \in BOOLEAN, inner \in Headers :
          IF HeaderOk(h)
          THEN /\ dataOffset' = DataOffsetOf(h)
               /\ payload' = [payload EXCEPT !.pos = DataOffsetOf(h)]
               /\ phase' = "select"
               /\ UNCHANGED <<exitStatus, pending>>
          ELSE IF isZip /\ HeaderOk(inner)
          THEN /\ dataOffset' = DataOffsetOf(inner)
               /\ payload' = [payload EXCEPT !.pos = DataOffsetOf(inner)]
               /\ phase' = "select"
               /\ UNCHANGED <<exitStatus, pending>>
          ELSE /\ phase' = "exited"
               /\ pending' = "format"
               /\ exitStatus' = ExitCode("format")
               /\ UNCHANGED <<dataOffset, payload>>
    /\ UNCHANGED <<checkv, parsev, execv, inputs, partitions, warnings, fetchPart, curOps, tasks,
                   poolv, loopv, outFiles, bars>>

(* run(), lines 77-94 *)
Select ==
    /\ phase = "select"
    /\ partitions' = SelectPartitions
    /\ warnings' = IF images = <<>> THEN <<>> ELSE NotFound(images)
    /\ IF Len(SelectPartitions) = 0
       THEN phase' = "exited" /\ exitStatus' = 0
       ELSE phase' = "prefetch" /\ UNCHANGED exitStatus
    /\ UNCHANGED <<checkv, parsev, execv, inputs, pending, dataOffset, payload, fetchPart, curOps,
                   tasks, poolv, loopv, outFiles, bars>>

(* run(), lines 99-106: one seek and one read of the payload source *)
PrefetchOp ==
    /\ phase = "prefetch"
    /\ fetchPart <= Len(partitions)
    /\ Len(curOps) < nops[partitions[fetchPart]]
    /\ LET p == partitions[fetchPart]
           i == Len(curOps) + 1
       IN  /\ payload' = [payload EXCEPT
                  !.pos = dataOffset + OpDataOffset(p, i) + OpDataLength,
                  !.reads = Append(@, <<p, i>>)]
           /\ curOps' = Append(curOps, i)
    /\ UNCHANGED <<checkv, parsev, execv, inputs, phase, exitStatus, pending, dataOffset, partitions,
                   warnings, fetchPart, tasks, poolv, loopv, outFiles, bars>>

(* run(), lines 107-112: the partition and its fetched operations *)
PrefetchAppend ==
    /\ phase = "prefetch"
    /\ fetchPart <= Len(partitions)
    /\ Len(curOps) = nops[partitions[fetchPart]]
    /\ tasks' = Append(tasks, [partition |-> partitions[fetchPart],
                               operations |-> curOps])
    /\ curOps' = <<>>
    /\ fetchPart' = fetchPart + 1
    /\ UNCHANGED <<checkv, parsev, execv, inputs, phase, exitStatus, pending, dataOffset, payload,
                   partitions, warnings, poolv, loopv, outFiles, bars>>

(* run(), line 114 *)
ClosePayload ==
    /\ phase = "prefetch"
    /\ fetchPart > Len(partitions)
    /\ payload' = [payload EXCEPT !.open = FALSE]
    /\ phase' = "submit"
    /\ UNCHANGED <<checkv, parsev, execv, inputs, exitStatus, pending, dataOffset, partitions,
                   warnings, fetchPart, curOps, tasks, poolv, loopv,
                   outFiles, bars>>

----------------------------------------------------------------------------
(* multiprocess_partitions: the progress counters and the thread pool *)

TaskIds == DOMAIN tasks

NameOf(t) == tasks[t].partition

(* variant: a failed task keeps its pool thread *)
Running_leak == {t \in DOMAIN pc : pc[t] \in {"op", "cb", "failed"}}

Running == {t \in DOMAIN pc : pc[t] \in {"op", "cb"}}

Finished == {t \in DOMAIN pc : pc[t] \in {"done", "failed"}}

(* ThreadPoolExecutor(max_workers=self.workers): a queued work item is     *)
(* taken only by one of at most `workers` threads, each running one item.  *)
(* variant: one thread per submitted work item, whatever the limit *)
WorkerAvailable_unbounded == TRUE

WorkerAvailable == Cardinality(Running) < workers

(* lines 126-133: a later part of the same name replaces the counter *)
LastTaskOf(n) ==
    CHOOSE t \in TaskIds : /\ NameOf(t) = n
                           /\ \A u \in TaskIds : NameOf(u) = n => u <= t

MakeBars ==
    [n \in Names |->
        IF \E t \in TaskIds : NameOf(t) = n
        THEN [made   |-> Cardinality({t \in TaskIds : NameOf(t) = n}),
              total  |-> Len(tasks[LastTaskOf(n)].operations),
              count  |-> 0,
              closed |-> FALSE]
        ELSE bars[n]]

(* lines 125-135: counters, then one submit per part, in list order *)
Submit ==
    /\ phase = "submit"
    /\ bars' = MakeBars
    /\ queue' = [t \in 1..Len(tasks) |-> t]
    /\ pc' = [t \in TaskIds |-> "queued"]
    /\ opIdx' = [t \in TaskIds |-> 1]
    /\ err' = [t \in TaskIds |-> "none"]
    /\ applied' = [t \in TaskIds |-> <<>>]
    /\ called' = [t \in TaskIds |-> <<>>]
    /\ phase' = "collect"
    /\ UNCHANGED <<checkv, parsev, execv, inputs, exitStatus, pending, dataOffset, payload,
                   partitions, warnings, fetchPart, curOps, tasks, loopv,
                   outFiles>>

Fail(t, e) ==
    /\ pc' = [pc EXCEPT ![t] = "failed"]
    /\ err' = [err EXCEPT ![t] = e]

(* A pool thread takes the oldest queued work item and enters dump_part,   *)
(* lines 233-240: open(out, "wb") creates or truncates the image; in       *)
(* differential mode open(old, "rb") follows.  Either open may raise.      *)
StartTask ==
    /\ queue # <<>>
    /\ WorkerAvailable
    /\ queue' = Tail(queue)
    /\ LET t == Head(queue) IN
       \E outOk \in BOOLEAN, oldOk \in BOOLEAN :
          IF ~outOk
          THEN /\ Fail(t, "open_out")
               /\ UNCHANGED outFiles
          ELSE /\ outFiles' = [outFiles EXCEPT ![NameOf(t)] =
                      [exists |-> TRUE, openers |-> @.openers \cup {t},
                       data |-> {}]]
               /\ IF diff /\ ~oldOk
                  THEN Fail(t, "open_old")
                  ELSE /\ pc' = [pc EXCEPT ![t] =
                              IF Len(tasks[t].operations) = 0 THEN "done" ELSE "op"]
                       /\ UNCHANGED err
    /\ UNCHANGED <<checkv, parsev, execv, inputs, mainv, opIdx, applied, called, loopv, bars>>

(* variant: the operation's bytes are fetched when the operation is applied *)
PayloadAfterOp_lazy(pl, t, i) ==
    [pl EXCEPT !.pos = dataOffset + OpDataOffset(NameOf(t), i) + OpDataLength,
               !.reads = Append(@, <<NameOf(t), i>>)]

(* data_for_op never uses self.payloadfile: the bytes are operation["data"] *)
PayloadAfterOp(pl, t, i) == pl

(* variant: the operations list walked from its end *)
CurrentOp_reversed(t) ==
    tasks[t].operations[Len(tasks[t].operations) + 1 - opIdx[t]]

(* dump_part, line 242: the element the for loop is at *)
CurrentOp(t) == tasks[t].operations[opIdx[t]]

(* Outcome of data_for_op for an operation of type ty whose payload        *)
(* decodes (decompresses, patches) iff ok: "written", or the error raised. *)
OpOutcome(ty, ok) ==
    CASE ty \in {"REPLACE_XZ", "REPLACE_BZ"} -> IF ok THEN "written" ELSE "decode"
      [] ty = "REPLACE" -> "written"
      [] ty = "SOURCE_COPY" -> IF ~diff THEN "mode_copy" ELSE "written"
      [] ty = "SOURCE_BSDIFF" ->
            IF ~diff THEN "mode_bsdiff" ELSE IF ok THEN "written" ELSE "decode"
      [] ty = "ZERO" -> "written"
      [] OTHER -> "unsupported"

(* dump_part, line 243 *)
DataForOp(t) ==
    /\ pc[t] = "op"
    /\ LET i == CurrentOp(t) IN
       /\ payload' = PayloadAfterOp(payload, t, i)
       /\ \E ty \in OpTypes, ok \in BOOLEAN :
          IF OpOutcome(ty, ok) = "written"
          THEN /\ outFiles' = [outFiles EXCEPT ![NameOf(t)].data = @ \cup {<<t, i>>}]
               /\ applied' = [applied EXCEPT ![t] = Append(@, i)]
               /\ pc' = [pc EXCEPT ![t] = "cb"]
               /\ UNCHANGED err
          ELSE /\ Fail(t, OpOutcome(ty, ok))
               /\ UNCHANGED <<outFiles, applied>>
    /\ UNCHANGED <<checkv, parsev, execv, inputs, phase, exitStatus, pending, dataOffset, partitions,
                   warnings, fetchPart, curOps, tasks, queue, opIdx, called,
                   loopv, bars>>

(* dump_part, line 244, and the loop's advance *)
Callback(t) ==
    /\ pc[t] = "cb"
    /\ bars' = [bars EXCEPT ![NameOf(t)].count = @ + 1]
    /\ called' = [called EXCEPT ![t] = Append(@, CurrentOp(t))]
    /\ opIdx' = [opIdx EXCEPT ![t] = @ + 1]
    /\ pc' = [pc EXCEPT ![t] =
           IF opIdx[t] = Len(tasks[t].operations) THEN "done" ELSE "op"]
    /\ UNCHANGED <<checkv, parsev, execv, inputs, mainv, queue, err, applied, loopv, outFiles>>

(* lines 137-145: one iteration of the as_completed loop.  future.result() *)
(* re-raises what the task raised; `except Exception` does not catch the   *)
(* SystemExit of sys.exit, which leaves the loop and the with block.       *)
Collect ==
    /\ phase = "collect"
    /\ \E t \in Finished \ collected :
          /\ collected' = collected \cup {t}
          /\ IF err[t] \in Fatal
             THEN /\ pending' = err[t]
                  /\ phase' = "shutdown"
                  /\ UNCHANGED <<reported, bars>>
             ELSE /\ reported' = IF err[t] = "none" THEN reported
                                 ELSE reported \cup {t}
                  /\ bars' = [bars EXCEPT ![NameOf(t)].closed = TRUE]
                  /\ UNCHANGED <<pending, phase>>
    /\ UNCHANGED <<checkv, parsev, execv, inputs, exitStatus, dataOffset, payload, partitions,
                   warnings, fetchPart, curOps, tasks, poolv, outFiles>>

(* as_completed is exhausted *)
LoopEnd ==
    /\ phase = "collect"
    /\ collected = TaskIds
    /\ phase' = "shutdown"
    /\ UNCHANGED <<checkv, parsev, execv, inputs, exitStatus, pending, dataOffset, payload,
                   partitions, warnings, fetchPart, curOps, tasks, poolv,
                   loopv, outFiles, bars>>

(* leaving the with block: shutdown(wait=True) joins the pool threads,     *)
(* which first drain the work queue; then a pending SystemExit ends the    *)
(* process, otherwise line 117 and the return to main follow.              *)
Shutdown ==
    /\ phase = "shutdown"
    /\ Finished = TaskIds
    /\ IF pending = "none"
       THEN phase' = "stop" /\ UNCHANGED exitStatus
       ELSE phase' = "exited" /\ exitStatus' = ExitCode(pending)
    /\ UNCHANGED <<checkv, parsev, execv, inputs, pending, dataOffset, payload, partitions,
                   warnings, fetchPart, curOps, tasks, poolv, loopv,
                   outFiles, bars>>

(* line 117, then main returns *)
Stop ==
    /\ phase = "stop"
    /\ phase' = "exited"
    /\ exitStatus' = 0
    /\ UNCHANGED <<checkv, parsev, execv, inputs, pending, dataOffset, payload, partitions,
                   warnings, fetchPart, curOps, tasks, poolv, loopv,
                   outFiles, bars>>

MainNext ==
    \/ Construct
    \/ Select
    \/ PrefetchOp
    \/ PrefetchAppend
    \/ ClosePayload
    \/ Submit
    \/ Collect
    \/ LoopEnd
    \/ Shutdown
    \/ Stop

WorkerNext ==
    \/ StartTask
    \/ \E t \in DOMAIN pc : DataForOp(t)
    \/ \E t \in DOMAIN pc : Callback(t)

Next == MainNext \/ WorkerNext

Spec == Init /\ [][Next]_vars

(* Pool threads and the main thread are operating-system threads: the     *)
(* process does not halt while one of them has a step to take.             *)
FairSpec == Spec /\ WF_vars(Next)

----------------------------------------------------------------------------
(* data_for_op on bytes.  A file object is a cursor and a byte sequence;   *)
(* offset k of the file is element k + 1 of the sequence.                  *)

Min(a, b) == IF a < b THEN a ELSE b
Max(a, b) == IF a > b THEN a ELSE b

(* f.seek(p) *)
Seek(f, p) == [f EXCEPT !.pos = p]

(* bytes after writing d at offset p: a gap past the end reads as zeros *)
WriteAt(b, p, d) ==
    [k \in 1..Max(Len(b), p + Len(d)) |->
        IF k > p /\ k <= p + Len(d) THEN d[k - p]
        ELSE IF k <= Len(b) THEN b[k] ELSE 0]

(* f.write(d): at the cursor, which moves past the written bytes *)
Write(f, d) == [pos |-> f.pos + Len(d), bytes |-> WriteAt(f.bytes, f.pos, d)]

(* the bytes f.read(n) returns: short at end of file *)
ReadAt(b, p, n) == SubSeq(b, p + 1, Min(p + n, Len(b)))

Zeros(n) == [k \in 1..n |-> 0]

(* lzma / bz2 decompress: the payload is a stream of one codec carrying a  *)
(* plain text; a stream of another codec or a damaged one raises.          *)
Decompress(codec, d) ==
    IF d.codec = codec /\ d.intact THEN [ok |-> TRUE, plain |-> d.plain]
    ELSE [ok |-> FALSE, plain |-> <<>>]

(* bsdiff4.patch(old, d): newlen bytes, the first ones old bytes plus the  *)
(* diff byte, the rest extra bytes; a damaged patch raises.                *)
Patch(old, d) ==
    IF d.intact
    THEN [ok |-> TRUE,
          new |-> [k \in 1..d.newlen |->
                     IF k <= Len(old) THEN (old[k] + d.delta) % 256 ELSE d.extra]]
    ELSE [ok |-> FALSE, new |-> <<>>]

(* lines 196-199: for ext in op.src_extents, from extent j on *)
RECURSIVE CopyLoop(_, _, _, _)
CopyLoop(exts, j, out, old) ==
    IF j > Len(exts) THEN out
    ELSE CopyLoop(exts, j + 1,
                  Write(out, ReadAt(old.bytes, exts[j].start_block * blockSize,
                                    exts[j].num_blocks * blockSize)),
                  old)

(* lines 206-209: old bytes of extents j.. appended to tmp_buff *)
RECURSIVE GatherLoop(_, _, _, _)
GatherLoop(exts, j, tmp, old) ==
    IF j > Len(exts) THEN tmp
    ELSE GatherLoop(exts, j + 1,
                    Write(tmp, ReadAt(old.bytes, exts[j].start_block * blockSize,
                                      exts[j].num_blocks * blockSize)),
                    old)

(* variant: the slices written one after the other from the cursor *)
RECURSIVE ScatterLoop_contiguous(_, _, _, _, _)
ScatterLoop_contiguous(exts, j, n, tmp, out) ==
    IF j > Len(exts) THEN out
    ELSE ScatterLoop_contiguous(exts, j + 1, n + exts[j].num_blocks, tmp,
                                Write(out, ReadAt(tmp, n * blockSize,
                                                  exts[j].num_blocks * blockSize)))

(* lines 214-221: for ext in op.dst_extents, n the blocks consumed so far *)
RECURSIVE ScatterLoop(_, _, _, _, _)
ScatterLoop(exts, j, n, tmp, out) ==
    IF j > Len(exts) THEN out
    ELSE ScatterLoop(exts, j + 1, n + exts[j].num_blocks, tmp,
                     Write(Seek(out, exts[j].start_block * blockSize),
                           ReadAt(tmp, n * blockSize,
                                  exts[j].num_blocks * blockSize)))

(* variant: the cursor is set by the first extent only *)
RECURSIVE ZeroLoop_oneseek(_, _, _)
ZeroLoop_oneseek(exts, j, out) ==
    IF j > Len(exts) THEN out
    ELSE ZeroLoop_oneseek(exts, j + 1,
             Write(IF j = 1 THEN Seek(out, exts[j].start_block * blockSize) ELSE out,
                   Zeros(exts[j].num_blocks * blockSize)))

(* lines 223-225 *)
RECURSIVE ZeroLoop(_, _, _)
ZeroLoop(exts, j, out) ==
    IF j > Len(exts) THEN out
    ELSE ZeroLoop(exts, j + 1,
                  Write(Seek(out, exts[j].start_block * blockSize),
                        Zeros(exts[j].num_blocks * blockSize)))

(* lines 205-213: tmp_buff after the old bytes were written, read back and *)
(* overwritten from offset 0 by the patched bytes                          *)
PatchedBuffer(op, old) ==
    LET gathered == GatherLoop(op.src_extents, 1, [pos |-> 0, bytes |-> <<>>], old).bytes
        patched  == Patch(gathered, op.data)
    IN  [ok |-> patched.ok, bytes |-> WriteAt(gathered, 0, patched.new)]

(* lines 197-198, 207-208: old_file after the seek and read of every       *)
(* source extent                                                           *)
OldAfterReads(exts, old) ==
    IF exts = <<>> THEN old
    ELSE LET e == exts[Len(exts)] IN
         Seek(old, e.start_block * blockSize
                   + Len(ReadAt(old.bytes, e.start_block * blockSize,
                                e.num_blocks * blockSize)))

(* data_for_op, lines 172-230: out_file and old_file afterwards and how    *)
(* the call ended ("done", or the error it raised)                         *)
DataForOpBytes(op, out, old) ==
    LET first == Seek(out, op.dst_extents[1].start_block * blockSize) IN
    CASE op.type = "REPLACE_XZ" ->
            IF Decompress("xz", op.data).ok
            THEN [out |-> Write(first, Decompress("xz", op.data).plain),
                  old |-> old, end |-> "done"]
            ELSE [out |-> out, old |-> old, end |-> "decode"]
      [] op.type = "REPLACE_BZ" ->
            IF Decompress("bz2", op.data).ok
            THEN [out |-> Write(first, Decompress("bz2", op.data).plain),
                  old |-> old, end |-> "done"]
            ELSE [out |-> out, old |-> old, end |-> "decode"]
      [] op.type = "REPLACE" ->
            [out |-> Write(first, op.data.plain), old |-> old, end |-> "done"]
      [] op.type = "SOURCE_COPY" ->
            IF ~diff THEN [out |-> out, old |-> old, end |-> "mode_copy"]
            ELSE [out |-> CopyLoop(op.src_extents, 1, first, old),
                  old |-> OldAfterReads(op.src_extents, old), end |-> "done"]
      [] op.type = "SOURCE_BSDIFF" ->
            IF ~diff THEN [out |-> out, old |-> old, end |-> "mode_bsdiff"]
            ELSE IF ~PatchedBuffer(op, old).ok
            THEN [out |-> first, old |-> OldAfterReads(op.src_extents, old),
                  end |-> "decode"]
            ELSE [out |-> ScatterLoop(op.dst_extents, 1, 0,
                                      PatchedBuffer(op, old).bytes, first),
                  old |-> OldAfterReads(op.src_extents, old), end |-> "done"]
      [] op.type = "ZERO" ->
            [out |-> ZeroLoop(op.dst_extents, 1, out), old |-> old, end |-> "done"]
      [] OTHER -> [out |-> out, old |-> old, end |-> "unsupported"]

(* Inputs of the executor *)

Extents == [start_block : 0..MaxStart, num_blocks : 1..MaxNum]

ExtentLists == UNION {[1..n -> Extents] : n \in 1..MaxExts}

RECURSIVE SumBlocks(_)
SumBlocks(exts) ==
    IF exts = <<>> THEN 0 ELSE Head(exts).num_blocks + SumBlocks(Tail(exts))

Blocks(e) == e.start_block..(e.start_block + e.num_blocks - 1)

Disjoint(exts) ==
    \A i, j \in DOMAIN exts : i # j => Blocks(exts[i]) \cap Blocks(exts[j]) = {}

(* the old image: every byte differs from every other and from zero *)
OldImage(bs) == [k \in 1..((MaxStart + MaxNum) * bs) |-> k]

(* out_file as earlier operations of the partition may have left it *)
OutImages(bs) == {<<>>, [k \in 1..((MaxStart + MaxNum) * bs) |-> 255]}

(* payload bytes: as many as the destination extents hold *)
NewBytes(n) == [k \in 1..n |-> 100 + k]

NoData == [codec |-> "raw", intact |-> TRUE, plain |-> <<>>,
           newlen |-> 0, delta |-> 0, extra |-> 0]

ExecOps(bs) ==
    {[type |-> "SOURCE_COPY", src_extents |-> src, dst_extents |-> dst,
      data |-> NoData] :
        src \in ExtentLists,
        dst \in {d \in ExtentLists : Disjoint(d)}}
    \cup
    {[type |-> "SOURCE_BSDIFF", src_extents |-> src, dst_extents |-> dst,
      data |-> [NoData EXCEPT !.intact = x[1], !.delta = 1, !.extra = 200,
                              !.newlen = SumBlocks(dst) * bs - x[2]]] :
        src \in ExtentLists,
        dst \in {d \in ExtentLists : Disjoint(d)},
        x \in {<<TRUE, 0>>, <<TRUE, 1>>, <<FALSE, 0>>}}
    \cup
    {[type |-> ty, src_extents |-> <<>>, dst_extents |-> dst, data |-> NoData] :
        ty \in {"ZERO", "OTHER"}, dst \in {d \in ExtentLists : Disjoint(d)}}
    \cup
    {[type |-> x[1], src_extents |-> <<>>, dst_extents |-> dst,
      data |-> [NoData EXCEPT !.codec = x[2], !.intact = ok,
                              !.plain = NewBytes(SumBlocks(dst) * bs)]] :
        x \in {<<"REPLACE", "raw">>, <<"REPLACE_XZ", "xz">>, <<"REPLACE_BZ", "bz2">>},
        ok \in BOOLEAN,
        dst \in {d \in ExtentLists : Disjoint(d) /\ Len(d) = 1}}

WellFormed(op) ==
    /\ Disjoint(op.dst_extents)
    /\ op.type = "SOURCE_COPY" =>
          SumBlocks(op.src_extents) = SumBlocks(op.dst_extents)

ExecInit ==
    /\ nops = [n \in Names |-> 1]
    /\ images = <<>>
    /\ diff \in BOOLEAN
    /\ workers = 1
    /\ phase = "exec"
    /\ exitStatus = 0
    /\ pending = "none"
    /\ dataOffset = 0
    /\ payload = [open |-> FALSE, pos |-> 0, reads |-> <<>>]
    /\ partitions = <<>>
    /\ warnings = <<>>
    /\ fetchPart = 1
    /\ curOps = <<>>
    /\ tasks = <<>>
    /\ queue = <<>>
    /\ pc = <<>>
    /\ opIdx = <<>>
    /\ err = <<>>
    /\ applied = <<>>
    /\ called = <<>>
    /\ collected = {}
    /\ reported = {}
    /\ outFiles = [n \in Names |-> [exists |-> FALSE, openers |-> {}, data |-> {}]]
    /\ bars = [n \in Names |-> [made |-> 0, total |-> 0, count |-> 0, closed |-> FALSE]]
    /\ blockSize \in 1..MaxBlockSize
    /\ execOp \in {op \in ExecOps(blockSize) : WellFormed(op)}
    /\ oldFile = [pos |-> 0, bytes |-> IF diff THEN OldImage(blockSize) ELSE <<>>]
    /\ \E b \in OutImages(blockSize) : outFile = [pos |-> Len(b), bytes |-> b]
    /\ execPc = "ready"
    /\ pfile = [pos |-> 0, bytes |-> <<>>]
    /\ parsePc = "idle"
    /\ attrs = [x \in {} |-> 0]
    /\ extsArg = <<>>
    /\ contiguous = <<>>

(* one call of data_for_op(operation, out_file, old_file) *)
Execute ==
    /\ execPc = "ready"
    /\ outFile' = DataForOpBytes(execOp, outFile, oldFile).out
    /\ oldFile' = DataForOpBytes(execOp, outFile, oldFile).old
    /\ execPc' = DataForOpBytes(execOp, outFile, oldFile).end
    /\ UNCHANGED <<checkv, parsev, inputs, mainv, poolv, loopv, outFiles, bars,
                   blockSize, execOp>>

ExecNext == Execute

ExecSpec == ExecInit /\ [][ExecNext]_vars

----------------------------------------------------------------------------
(* parse_metadata on bytes *)

(* the value kept below 2^22: larger values only ever act as "more than    *)
(* the file holds" or "not the supported version"                          *)
Saturate(v) == IF v > 4194303 THEN 4194303 ELSE v

(* variant: least significant byte first *)
RECURSIVE BigEndian_little(_)
BigEndian_little(b) ==
    IF b = <<>> THEN 0 ELSE Saturate(Head(b) + 256 * BigEndian_little(Tail(b)))

(* struct.unpack(">I") and (">Q"): most significant byte first *)
RECURSIVE BigEndian(_)
BigEndian(b) ==
    IF b = <<>> THEN 0
    ELSE Saturate(BigEndian(SubSeq(b, 1, Len(b) - 1)) * 256 + b[Len(b)])

u32(x) == BigEndian(x)

u64(x) == BigEndian(x)

MagicBytes == <<67, 114, 65, 85>>

(* manifest decoding (ParseFromString) as far as block_size goes: the      *)
(* first manifest byte, 0 for an empty manifest                            *)
DecodeBlockSize(manifest) == IF manifest = <<>> THEN 0 ELSE manifest[1]

(* parse_metadata, lines 147-170: the file afterwards, how the call ended, *)
(* and the attributes it assigned                                          *)
ParseMetadata(f) ==
    LET buffer   == ReadAt(f.bytes, f.pos, HeadLen)
        f1       == Seek(f, f.pos + Len(buffer))
        version  == u64(SubSeq(buffer, 5, 12))
        msize    == u64(SubSeq(buffer, 13, 20))
        ssize    == IF version > 1 THEN u32(SubSeq(buffer, 21, 24)) ELSE 0
        manifest == ReadAt(f1.bytes, f1.pos, msize)
        f2       == Seek(f1, f1.pos + Len(manifest))
        sig      == ReadAt(f2.bytes, f2.pos, ssize)
        f3       == Seek(f2, f2.pos + Len(sig))
        failed   == [file |-> f1, end |-> "assert", attrs |-> [x \in {} |-> 0]]
    IN  IF Len(buffer) # HeadLen THEN failed
        ELSE IF SubSeq(buffer, 1, 4) # MagicBytes THEN failed
        ELSE IF version # FormatVersion THEN failed
        ELSE [file |-> f3, end |-> "done",
              attrs |-> [metadata_signature |-> sig, data_offset |-> f3.pos,
                         dam |-> manifest,
                         block_size |-> DecodeBlockSize(manifest)]]

(* Inputs: headers of every kind followed by a body, cut at every length *)

Word(n, v) == [k \in 1..n |-> IF k = n THEN v ELSE 0]

VersionFields ==
    {Word(8, FormatVersion - 1), Word(8, FormatVersion), Word(8, FormatVersion + 1),
     [k \in 1..8 |-> IF k = 1 THEN FormatVersion ELSE 0],
     [k \in 1..8 |-> IF k >= 7 THEN FormatVersion ELSE 0]}

MagicFields == {MagicBytes, <<80, 75, 3, 4>>, <<67, 114, 65, 86>>}

Body == [k \in 1..MaxBody |-> 30 + k]

PayloadFiles ==
    {SubSeq(m \o v \o Word(8, ms) \o Word(4, ss) \o Body, 1, n) :
        m \in MagicFields, v \in VersionFields, ms \in {0, 2}, ss \in {0, 1},
        n \in 0..(HeadLen + MaxBody)}

ParseInit ==
    /\ nops = [n \in Names |-> 1]
    /\ images = <<>>
    /\ diff = FALSE
    /\ workers = 1
    /\ phase = "parse"
    /\ exitStatus = 0
    /\ pending = "none"
    /\ dataOffset = 0
    /\ payload = [open |-> TRUE, pos |-> 0, reads |-> <<>>]
    /\ partitions = <<>>
    /\ warnings = <<>>
    /\ fetchPart = 1
    /\ curOps = <<>>
    /\ tasks = <<>>
    /\ queue = <<>>
    /\ pc = <<>>
    /\ opIdx = <<>>
    /\ err = <<>>
    /\ applied = <<>>
    /\ called = <<>>
    /\ collected = {}
    /\ reported = {}
    /\ outFiles = [n \in Names |-> [exists |-> FALSE, openers |-> {}, data |-> {}]]
    /\ bars = [n \in Names |-> [made |-> 0, total |-> 0, count |-> 0, closed |-> FALSE]]
    /\ blockSize = 1
    /\ execOp = [type |-> "ZERO", src_extents |-> <<>>, dst_extents |-> <<>>,
                 data |-> <<>>]
    /\ oldFile = [pos |-> 0, bytes |-> <<>>]
    /\ outFile = [pos |-> 0, bytes |-> <<>>]
    /\ execPc = "idle"
    /\ \E b \in PayloadFiles : pfile = [pos |-> 0, bytes |-> b]
    /\ parsePc = "ready"
    /\ attrs = [x \in {} |-> 0]
    /\ extsArg = <<>>
    /\ contiguous = <<>>

(* one call of self.parse_metadata() *)
Parse ==
    /\ parsePc = "ready"
    /\ pfile' = ParseMetadata(pfile).file
    /\ parsePc' = ParseMetadata(pfile).end
    /\ attrs' = ParseMetadata(pfile).attrs
    /\ UNCHANGED <<checkv, inputs, mainv, poolv, loopv, outFiles, bars, execv>>

ParseNext == Parse

ParseSpec == ParseInit /\ [][ParseNext]_vars

----------------------------------------------------------------------------
(* verify_contiguous *)

(* the loop of lines 32-36 from the extent list `es` on, `blocks` being    *)
(* the running sum                                                         *)
RECURSIVE VerifyLoop(_, _)
VerifyLoop(es, blocks) ==
    IF es = <<>> THEN TRUE
    ELSE IF Head(es).start_block # blocks THEN FALSE
    ELSE VerifyLoop(Tail(es), blocks + Head(es).num_blocks)

verify_contiguous(es) == VerifyLoop(es, 0)

ExtentArgs == UNION {[1..n -> Extents] : n \in 0..(MaxExts + 1)}

VerifyInit ==
    /\ nops = [n \in Names |-> 1]
    /\ images = <<>>
    /\ diff = FALSE
    /\ workers = 1
    /\ phase = "verify"
    /\ exitStatus = 0
    /\ pending = "none"
    /\ dataOffset = 0
    /\ payload = [open |-> TRUE, pos |-> 0, reads |-> <<>>]
    /\ partitions = <<>>
    /\ warnings = <<>>
    /\ fetchPart = 1
    /\ curOps = <<>>
    /\ tasks = <<>>
    /\ queue = <<>>
    /\ pc = <<>>
    /\ opIdx = <<>>
    /\ err = <<>>
    /\ applied = <<>>
    /\ called = <<>>
    /\ collected = {}
    /\ reported = {}
    /\ outFiles = [n \in Names |-> [exists |-> FALSE, openers |-> {}, data |-> {}]]
    /\ bars = [n \in Names |-> [made |-> 0, total |-> 0, count |-> 0, closed |-> FALSE]]
    /\ blockSize = 1
    /\ execOp = [type |-> "ZERO", src_extents |-> <<>>, dst_extents |-> <<>>,
                 data |-> <<>>]
    /\ oldFile = [pos |-> 0, bytes |-> <<>>]
    /\ outFile = [pos |-> 0, bytes |-> <<>>]
    /\ execPc = "idle"
    /\ pfile = [pos |-> 0, bytes |-> <<>>]
    /\ parsePc = "idle"
    /\ attrs = [x \in {} |-> 0]
    /\ extsArg \in ExtentArgs
    /\ contiguous = <<>>

Verify ==
    /\ contiguous = <<>>
    /\ contiguous' = <<verify_contiguous(extsArg)>>
    /\ UNCHANGED <<extsArg, parsev, inputs, mainv, poolv, loopv, outFiles, bars,
                   execv>>

VerifyNext == Verify

VerifySpec == VerifyInit /\ [][VerifyNext]_vars

----------------------------------------------------------------------------
(* Properties of the run *)

Local == {"open_out", "open_old", "decode"}

Started == {t \in DOMAIN pc : pc[t] # "queued"}

ManifestOrder(n) == [i \in 1..n |-> i]

IsPrefix(s, u) == Len(s) <= Len(u) /\ s = SubSeq(u, 1, Len(s))

(* C1: no two dump_part tasks open and write the same output image file.  *)
C1_ExclusiveOutput ==
    \A n \in Names : Cardinality(outFiles[n].openers) <= 1

(* C2: at every instant at most `workers` partitions are inside dump_part. *)
C2_BoundedConcurrency == Cardinality(Running) <= workers

C2_Witness ==
    /\ Len(tasks) > workers
    /\ Cardinality(Running) = workers
    /\ queue # <<>>

(* C3: under fair scheduling every submitted partition task eventually    *)
(* completes or fails, also when other tasks fail.                         *)
C3_EveryTaskTerminates ==
    (pc # <<>>) ~> (pc # <<>> /\ \A t \in DOMAIN pc : pc[t] \in {"done", "failed"})

C3_Witness ==
    /\ Len(tasks) >= 2
    /\ Finished = TaskIds
    /\ \E t \in TaskIds : pc[t] = "failed"
    /\ \E t \in TaskIds : pc[t] = "done" /\ Len(tasks[t].operations) = MaxOps

(* C4: once the run has ended, every partition task that did not fail has  *)
(* all of its operations applied, and every task that failed with an       *)
(* exception of data_for_op or of open() has been reported by the          *)
(* as_completed loop of multiprocess_partitions; stated here for the       *)
(* failures raised as Exception, the ones the loop's handler names.        *)
C4_FailureIsolatedAndReported ==
    (phase = "exited" /\ pc # <<>>) =>
        \A t \in DOMAIN pc :
            /\ pc[t] \in {"done", "failed"}
            /\ pc[t] = "done" => applied[t] = tasks[t].operations
            /\ (pc[t] = "failed" /\ err[t] \in Local) => t \in reported

(* C5: every read of the payload source precedes the first task start, and *)
(* once the tasks are submitted the payload source and its cursor never    *)
(* change again.                                                           *)
C5_AllFetched ==
    /\ ~payload.open
    /\ \A k \in DOMAIN partitions : \A i \in 1..nops[partitions[k]] :
          \E j \in DOMAIN payload.reads : payload.reads[j] = <<partitions[k], i>>
    /\ \A t \in TaskIds : Len(tasks[t].operations) = nops[NameOf(t)]

C5_TwoPhase ==
    /\ [](pc # <<>> => C5_AllFetched)
    /\ [][pc # <<>> => payload' = payload]_vars

C5_Witness ==
    /\ Len(payload.reads) >= 2
    /\ \E t \in DOMAIN pc : pc[t] = "done"

(* C6: inside one task the operations complete in manifest order, one at   *)
(* a time, and the progress callback runs once after each completed        *)
(* operation and for no other.                                             *)
C6_InOrder ==
    \A t \in DOMAIN pc :
        /\ applied[t] = ManifestOrder(Len(applied[t]))
        /\ Len(applied[t]) <= nops[NameOf(t)]
        /\ IsPrefix(called[t], applied[t])
        /\ Len(applied[t]) - Len(called[t]) = (IF pc[t] = "cb" THEN 1 ELSE 0)
        /\ pc[t] = "done" => applied[t] = ManifestOrder(nops[NameOf(t)])

C6_Witness ==
    \E t \in DOMAIN pc : pc[t] = "cb" /\ Len(applied[t]) = 2 /\ Len(called[t]) = 1

(* C7: a SOURCE_COPY or SOURCE_BSDIFF reached outside differential mode    *)
(* fails and leaves no output file for its partition: the file was not     *)
(* created or truncated and holds no bytes of earlier operations.          *)
C7_NoOutputOnModeError ==
    \A t \in DOMAIN pc :
        err[t] \in {"mode_copy", "mode_bsdiff"} =>
            /\ ~outFiles[NameOf(t)].exists
            /\ outFiles[NameOf(t)].data = {}

(* C8: when a fatal error (format, unsupported type, mode) is raised no    *)
(* partition task has started and no output file has been written.         *)
C8_FatalBeforeConcurrentPhase ==
    (pending = "format" \/ \E t \in DOMAIN err : err[t] \in Fatal) =>
        /\ Started = {}
        /\ \A n \in Names : ~outFiles[n].exists

(* C9: a run in which some partition task failed with a partition-local    *)
(* error ends with an exit status other than that of a successful run.     *)
C9_ExitStatusReflectsFailure ==
    (phase = "exited" /\ \E t \in DOMAIN err : err[t] \in Local) =>
        exitStatus # 0

----------------------------------------------------------------------------
(* Properties of the executor *)

(* byte offset, in the scattered data, of destination extent i *)
DstOffset(exts, i) == SumBlocks(SubSeq(exts, 1, i - 1)) * blockSize

(* concatenation of the old-image ranges of the source extents *)
RECURSIVE Concatenated(_)
Concatenated(exts) ==
    IF exts = <<>> THEN <<>>
    ELSE ReadAt(OldImage(blockSize), Head(exts).start_block * blockSize,
                Head(exts).num_blocks * blockSize)
         \o Concatenated(Tail(exts))

(* C10: after a SOURCE_COPY, the byte range of every destination extent i  *)
(* holds the slice of the concatenated source ranges that starts at the    *)
(* running sum of the byte lengths of destination extents 1..i-1.          *)
C10_SourceCopyScatters ==
    (execPc = "done" /\ execOp.type = "SOURCE_COPY") =>
        \A i \in DOMAIN execOp.dst_extents :
            ReadAt(outFile.bytes, execOp.dst_extents[i].start_block * blockSize,
                   execOp.dst_extents[i].num_blocks * blockSize)
            = SubSeq(Concatenated(execOp.src_extents),
                     DstOffset(execOp.dst_extents, i) + 1,
                     DstOffset(execOp.dst_extents, i)
                        + execOp.dst_extents[i].num_blocks * blockSize)

(* the bytes bsdiff4.patch returns for the operation *)
NewOf(op) == Patch(Concatenated(op.src_extents), op.data).new

(* C11: after a SOURCE_BSDIFF whose patched bytes are as long as the       *)
(* destination extents together, the byte range of every destination       *)
(* extent i holds the patched bytes from the running offset of extent i.   *)
C11_BsdiffScatters ==
    (/\ execPc = "done"
     /\ execOp.type = "SOURCE_BSDIFF"
     /\ Len(NewOf(execOp)) = SumBlocks(execOp.dst_extents) * blockSize) =>
        \A i \in DOMAIN execOp.dst_extents :
            ReadAt(outFile.bytes, execOp.dst_extents[i].start_block * blockSize,
                   execOp.dst_extents[i].num_blocks * blockSize)
            = SubSeq(NewOf(execOp),
                     DstOffset(execOp.dst_extents, i) + 1,
                     DstOffset(execOp.dst_extents, i)
                        + execOp.dst_extents[i].num_blocks * blockSize)

C11_Witness ==
    /\ execPc = "done"
    /\ execOp.type = "SOURCE_BSDIFF"
    /\ Len(NewOf(execOp)) = SumBlocks(execOp.dst_extents) * blockSize
    /\ Len(execOp.src_extents) = 2
    /\ Len(execOp.dst_extents) = 2
    /\ execOp.dst_extents[2].start_block
          # execOp.dst_extents[1].start_block + execOp.dst_extents[1].num_blocks
    /\ SumBlocks(execOp.src_extents) > SumBlocks(execOp.dst_extents)
    /\ blockSize > 1

(* byte offsets (from 0) covered by the destination extents *)
DstOffsets(exts) ==
    UNION {(exts[i].start_block * blockSize)
              ..((exts[i].start_block + exts[i].num_blocks) * blockSize - 1) :
           i \in DOMAIN exts}

(* C12: after a ZERO operation every byte inside the destination extents   *)
(* is zero, every byte the file had outside them is unchanged, and neither *)
(* the old image nor the payload was read.  The unprimed file is the one   *)
(* before the call.                                                        *)
C12_ZeroFrame ==
    [][(execPc = "ready" /\ execOp.type = "ZERO") =>
          /\ execPc' = "done"
          /\ \A o \in DstOffsets(execOp.dst_extents) :
                o < Len(outFile'.bytes) /\ outFile'.bytes[o + 1] = 0
          /\ \A k \in DOMAIN outFile.bytes :
                (k - 1) \notin DstOffsets(execOp.dst_extents) =>
                    k <= Len(outFile'.bytes) /\ outFile'.bytes[k] = outFile.bytes[k]
          /\ oldFile' = oldFile
          /\ payload' = payload]_vars

C12_Witness ==
    /\ execPc = "done"
    /\ execOp.type = "ZERO"
    /\ Len(execOp.dst_extents) = 2
    /\ execOp.dst_extents[2].start_block
          > execOp.dst_extents[1].start_block + execOp.dst_extents[1].num_blocks
    /\ \E k \in DOMAIN outFile.bytes : outFile.bytes[k] # 0
    /\ blockSize > 1

OldBytes(op) == {Concatenated(op.src_extents)[k] : k \in DOMAIN Concatenated(op.src_extents)}

(* C19: a SOURCE_BSDIFF that completes puts, at every offset of every       *)
(* destination extent, the byte of the patched output at the extent's       *)
(* running offset; where the patched output has ended, no byte gathered     *)
(* from the old image is put in the file.                                   *)
C19_OnlyPatchedBytes ==
    [][(execPc = "ready" /\ execPc' = "done" /\ execOp.type = "SOURCE_BSDIFF") =>
          \A i \in DOMAIN execOp.dst_extents :
              \A r \in 0..(execOp.dst_extents[i].num_blocks * blockSize - 1) :
                  LET o == execOp.dst_extents[i].start_block * blockSize + r
                      b == DstOffset(execOp.dst_extents, i) + r
                  IN  IF b < Len(NewOf(execOp))
                      THEN /\ o < Len(outFile'.bytes)
                           /\ outFile'.bytes[o + 1] = NewOf(execOp)[b + 1]
                      ELSE o < Len(outFile'.bytes) =>
                              outFile'.bytes[o + 1] \notin OldBytes(execOp)]_vars

(* C20: the updates recorded on a partition's progress counter never      *)
(* exceed the counter's total, the number of operations of the partition,  *)
(* and equal it once a task of the partition has completed successfully.   *)
C20_ProgressBounded ==
    \A n \in Names :
        /\ bars[n].count <= bars[n].total
        /\ \A t \in DOMAIN pc :
              (NameOf(t) = n /\ pc[t] = "done") => bars[n].count = bars[n].total

----------------------------------------------------------------------------
(* Properties of the header decoder *)

GoodHeader(b) ==
    /\ Len(b) >= 24
    /\ SubSeq(b, 1, 4) = <<67, 114, 65, 85>>
    /\ SubSeq(b, 5, 12) = <<0, 0, 0, 0, 0, 0, 0, 2>>

(* C13: parse_metadata succeeds only on a file with 24 header bytes, the   *)
(* magic "CrAU" and the big-endian version 2; on any other file it raises  *)
(* with no byte past the header consumed and no attribute assigned.        *)
C13_HeaderChecked ==
    /\ parsePc = "done" => GoodHeader(pfile.bytes)
    /\ (parsePc \in {"done", "assert"} /\ ~GoodHeader(pfile.bytes)) =>
          /\ parsePc = "assert"
          /\ pfile.pos <= 24
          /\ DOMAIN attrs = {}

C13_Witness ==
    /\ parsePc = "assert"
    /\ Len(pfile.bytes) > 24
    /\ SubSeq(pfile.bytes, 1, 4) = <<67, 114, 65, 85>>
    /\ SubSeq(pfile.bytes, 5, 12) = <<0, 0, 0, 0, 0, 0, 0, 3>>

----------------------------------------------------------------------------
(* Properties of selection and of fatal errors *)

Listed == {images[k] : k \in DOMAIN images}

(* C14: with a non-empty allow-list the partitions materialized are        *)
(* exactly the manifest partitions whose name is listed; each listed name  *)
(* that matches none is warned about, the run goes on to the prefetch when *)
(* some name matched, and the tasks submitted are those of the matched     *)
(* partitions.                                                             *)
C14_Selection ==
    /\ [][(phase = "select" /\ images # <<>>) =>
            /\ {partitions'[k] : k \in DOMAIN partitions'} = Names \cap Listed
            /\ {warnings'[k] : k \in DOMAIN warnings'} = Listed \ Names
            /\ (Names \cap Listed # {}) => phase' = "prefetch"]_vars
    /\ []((pc # <<>> /\ images # <<>>) =>
            {NameOf(t) : t \in TaskIds} = Names \cap Listed)

C14_Witness ==
    /\ pc # <<>>
    /\ warnings # <<>>
    /\ \E t \in TaskIds : NameOf(t) \in Listed /\ pc[t] = "done"

StatusOf(e) ==
    CASE e = "unsupported" -> 255
      [] e = "mode_copy"   -> 254
      [] e = "mode_bsdiff" -> 253

FatalTasks == {t \in DOMAIN err : err[t] \in Fatal}

(* C15: once a task has hit an unsupported type or a mode violation the    *)
(* run ends, with the non-zero status of the kind of one such task (255,   *)
(* 254 or 253), and such a task is never reported as a partition-local     *)
(* failure, whatever the order in which tasks complete.                    *)
C15_FatalTerminates ==
    /\ [](\A t \in FatalTasks : t \notin reported)
    /\ []((phase = "exited" /\ FatalTasks # {}) =>
            \E t \in FatalTasks : exitStatus = StatusOf(err[t]))
    /\ (FatalTasks # {}) ~> (phase = "exited" /\ exitStatus # 0)

C15_Witness ==
    /\ phase = "exited"
    /\ exitStatus = 253
    /\ \E t \in FatalTasks : err[t] = "mode_copy"

(* C16: once a task has raised a fatal error, no task that is still       *)
(* queued begins to execute, and a task that is running is not             *)
(* interrupted.                                                            *)
C16_NoStartAfterFatal ==
    [][(FatalTasks # {}) =>
          \A t \in DOMAIN pc :
              /\ pc[t] = "queued" => pc'[t] = "queued"
              /\ pc[t] \in {"op", "cb"} => pc'[t] \in {"op", "cb", "done", "failed"}]_vars

(* C17: the reads issued to the payload source follow the manifest: of two *)
(* reads the earlier one is of an earlier partition of the manifest, or of  *)
(* the same partition and an earlier operation, whatever the allow-list.    *)
C17_PrefetchInManifestOrder ==
    \A j \in DOMAIN payload.reads : \A k \in DOMAIN payload.reads :
        j < k =>
            \/ payload.reads[j][1] < payload.reads[k][1]
            \/ /\ payload.reads[j][1] = payload.reads[k][1]
               /\ payload.reads[j][2] < payload.reads[k][2]

----------------------------------------------------------------------------
(* Properties of verify_contiguous *)

RelativeStart(es, i) == es[1].start_block + SumBlocks(SubSeq(es, 1, i - 1))

(* C18: verify_contiguous returns True exactly when every extent starts at *)
(* the first extent's start_block plus the number of blocks of the extents *)
(* before it.                                                              *)
C18_ContiguousFromFirst ==
    contiguous # <<>> =>
        (contiguous[1] <=>
            \A i \in DOMAIN extsArg :
                extsArg[i].start_block = RelativeStart(extsArg, i))

====
